---- MODULE Spec2Model ----
(***************************************************************************)
(* LPC spritesheet generator API: cache-key derivation (src/api/src/       *)
(* cache.js), the compositing engine (renderer), the disk and memory cache *)
(* tiers and the request handlers that resolve a character definition      *)
(* (src/api/server.js) or pre-generate a batch (admin router).             *)
(***************************************************************************)
EXTENDS Integers, Sequences, FiniteSets, TLC

VARIABLES
    disk,     \* cache directory: hash -> PNG buffer of <hash>.png
    mem,      \* NodeCache instance `cache`: key -> [v |-> buffer, t |-> expiry]
    now,      \* wall clock, in units of one hour
    res,      \* the request last handled and the response sent for it
    assets,   \* files under spritesheets/: <<fileName, animName>> -> image
    arg,      \* argument of the pure function under study
    ret,      \* its result
    dirExists,     \* whether the cache directory exists
    ADMIN_API_KEY, \* process.env.ADMIN_API_KEY; "" when it is not set
    client,        \* the x-api-key header and apiKey query parameter the
                   \* administrator's client sends; "" when it sends none
    calls          \* the requests in flight whose handlers are suspended at
                   \* an await, and the responses sent to them

vars == <<disk, mem, now, res, assets, arg, ret, dirExists, ADMIN_API_KEY, client, calls>>

(***************************************************************************)
(* Bounds of the model.                                                    *)
(***************************************************************************)
MaxKeyLayers == 2      \* longest layer list given to generateCacheKey
MaxRenderLayers == 2   \* longest layer list given to generateSpritesheet
MaxBatch == 2          \* longest batch body of the handler under study
MaxSetup == 1          \* longest batch body of the other batch handler
MaxTime == 2           \* the clock stops here
MaxZ == 2              \* largest finite zPos
MaxCalls == 2          \* requests in flight at once

(***************************************************************************)
(* Values.  A layer is a record {fileName, zPos, variant}; zNum tells      *)
(* whether typeof zPos === 'number'.  The empty fileName and bodyTypeName  *)
(* stand for the falsy values ('' or a missing field).                     *)
(***************************************************************************)
Layer(f, z, v) == [fileName |-> f, zPos |-> z, zNum |-> TRUE, variant |-> v]

BadZLayer(f, v) == [fileName |-> f, zPos |-> 0, zNum |-> FALSE, variant |-> v]

\* A request item: isNull is JSON null; hasLayers is Array.isArray(layers).
Definition(b, ls) ==
    [isNull |-> FALSE, bodyTypeName |-> b, hasLayers |-> TRUE, layers |-> ls]

NoLayersDefinition(b) ==
    [isNull |-> FALSE, bodyTypeName |-> b, hasLayers |-> FALSE, layers |-> <<>>]

NullItem ==
    [isNull |-> TRUE, bodyTypeName |-> "", hasLayers |-> FALSE, layers |-> <<>>]

\* File names in the order String.prototype.localeCompare gives them.
FileNameOrder == <<"", "body/a.png", "hair/b.png">>

FileNames == {"body/a.png", "hair/b.png"}

Rank(f) == CHOOSE i \in 1..Len(FileNameOrder) : FileNameOrder[i] = f

Range(s) == {s[i] : i \in DOMAIN s}

SeqsUpTo(S, n) == UNION {[1..k -> S] : k \in 0..n}

Reorderings(s) ==
    {[i \in DOMAIN s |-> s[p[i]]] :
        p \in {q \in [DOMAIN s -> DOMAIN s] : \A i, j \in DOMAIN s : q[i] = q[j] => i = j}}

(***************************************************************************)
(* Array.prototype.sort: a stable sort.  key maps each element to the      *)
(* number its comparator orders by; an element is inserted after every     *)
(* element that does not compare greater.                                  *)
(***************************************************************************)
RECURSIVE InsertByKey(_, _, _)
InsertByKey(x, s, key) ==
    IF s = <<>> THEN <<x>>
    ELSE IF key[x] < key[Head(s)] THEN <<x>> \o s
    ELSE <<Head(s)>> \o InsertByKey(x, Tail(s), key)

RECURSIVE SortByKey(_, _)
SortByKey(s, key) ==
    IF s = <<>> THEN <<>>
    ELSE InsertByKey(s[Len(s)], SortByKey(SubSeq(s, 1, Len(s) - 1), key), key)

(***************************************************************************)
(* cache.js generateCacheKey.  The SHA-256 hex digest is taken as          *)
(* injective: the hash is the canonical JSON structure that is digested.   *)
(***************************************************************************)
FileNameKey(layers) == [l \in Range(layers) |-> Rank(l.fileName)]

SortedForKey(layers) == SortByKey(layers, FileNameKey(layers))

\* Number values: the finite ones are -MaxZ..MaxZ; Infinity and -Infinity
\* (what JSON.parse gives for 1e999 and -1e999) lie beyond them.
Infinity == MaxZ + 1

\* JSON.stringify of a number: a non-finite number is written as null.
stringifyNumber(z) ==
    IF z >= Infinity \/ z <= 0 - Infinity
    THEN [null |-> TRUE, num |-> 0]
    ELSE [null |-> FALSE, num |-> z]

generateCacheKey(bodyTypeName, layers) ==
    [bodyTypeName |-> bodyTypeName,
     layers |-> [i \in DOMAIN layers |->
                    LET l == SortedForKey(layers)[i]
                    IN  [fileName |-> l.fileName, zPos |-> stringifyNumber(l.zPos),
                         zNum |-> l.zNum, variant |-> l.variant]]]

(***************************************************************************)
(* Specification SpecKey: generateCacheKey applied to a layer list and to  *)
(* a permutation of it.                                                    *)
(***************************************************************************)
KeyLayers == {Layer(f, z, v) : f \in FileNames, z \in 1..2, v \in {"v", "w"}}

NoArg == [fn |-> "none"]

NoRet == [fn |-> "none"]

IdleDisk == <<>>

IdleMem == <<>>

NoRes == [op |-> "none", seq |-> 0]

NoAssets == <<>>

\* The key the deployment configures, and a client that sends key k in the
\* X-Api-Key header.
AdminKey == "secret"

KeyInHeader(k) == [header |-> k, query |-> ""]

\* No request is in flight.
NoCalls == <<>>

InitKey ==
    /\ disk = IdleDisk /\ mem = IdleMem /\ now = 0 /\ res = NoRes
    /\ dirExists = FALSE
    /\ ADMIN_API_KEY = AdminKey /\ client = KeyInHeader(AdminKey)
    /\ calls = NoCalls
    /\ assets = NoAssets
    /\ \E b \in {"male", "female"} :
         \E ls \in SeqsUpTo(KeyLayers, MaxKeyLayers) :
           \E ps \in Reorderings(ls) :
             arg = [fn |-> "generateCacheKey", bodyTypeName |-> b,
                    layers |-> ls, permuted |-> ps]
    /\ ret = NoRet

ApplyKey ==
    /\ arg.fn = "generateCacheKey" /\ ret = NoRet
    /\ ret' = [fn |-> "generateCacheKey",
               hash |-> generateCacheKey(arg.bodyTypeName, arg.layers),
               hashPermuted |-> generateCacheKey(arg.bodyTypeName, arg.permuted)]
    /\ UNCHANGED <<disk, mem, now, res, assets, arg, dirExists, ADMIN_API_KEY, client, calls>>

NextKey == ApplyKey

SpecKey == InitKey /\ [][NextKey]_vars

\* C1: layer lists that are permutations of one another, duplicated file
\* names included, get the same cache key for the same body type.
C1_PermutationSameKey ==
    ret.fn = "generateCacheKey" => ret.hash = ret.hashPermuted

(***************************************************************************)
(* The layout table (constants module, second half of cache.js).           *)
(***************************************************************************)
FRAME_SIZE == 64

ANIMATION_OFFSETS ==
    << [name |-> "spellcast",   y |-> 0],
       [name |-> "thrust",      y |-> 4 * FRAME_SIZE],
       [name |-> "walk",        y |-> 8 * FRAME_SIZE],
       [name |-> "slash",       y |-> 12 * FRAME_SIZE],
       [name |-> "shoot",       y |-> 16 * FRAME_SIZE],
       [name |-> "hurt",        y |-> 20 * FRAME_SIZE],
       [name |-> "climb",       y |-> 21 * FRAME_SIZE],
       [name |-> "idle",        y |-> 22 * FRAME_SIZE],
       [name |-> "jump",        y |-> 26 * FRAME_SIZE],
       [name |-> "sit",         y |-> 30 * FRAME_SIZE],
       [name |-> "emote",       y |-> 34 * FRAME_SIZE],
       [name |-> "run",         y |-> 38 * FRAME_SIZE],
       [name |-> "combat_idle", y |-> 42 * FRAME_SIZE],
       [name |-> "backslash",   y |-> 46 * FRAME_SIZE],
       [name |-> "halfslash",   y |-> 50 * FRAME_SIZE] >>

SHEET_WIDTH == 832

SheetHeightUpToLastRow == 50 * FRAME_SIZE

SHEET_HEIGHT == 3456

(***************************************************************************)
(* The canvas.  Pixels are observed at the first two frames of the first   *)
(* line of every animation row; a pixel holds "" (transparent) or the file *)
(* name of the layer whose image painted it.  An image is the set of the   *)
(* x offsets, on its first line, where it is opaque.                       *)
(***************************************************************************)
ProbeXs == {0, FRAME_SIZE}

ProbePixels == {<<x, ANIMATION_OFFSETS[i].y>> : x \in ProbeXs, i \in DOMAIN ANIMATION_OFFSETS}

BlankCanvasOneFrame ==
    [width |-> FRAME_SIZE, height |-> FRAME_SIZE,
     px |-> [c \in ProbePixels |-> "background"], drawn |-> <<>>]

\* createCanvas + clearRect: a fully transparent sheet, nothing drawn yet.
BlankCanvas ==
    [width |-> SHEET_WIDTH, height |-> SHEET_HEIGHT,
     px |-> [c \in ProbePixels |-> ""], drawn |-> <<>>]

\* ctx.drawImage(img, 0, yPos), source-over: opaque pixels replace, transparent
\* pixels leave what was drawn before.
DrawImage(px, img, yPos, colour) ==
    [c \in DOMAIN px |-> IF c[2] = yPos /\ c[1] \in img THEN colour ELSE px[c]]

\* path.join(__dirname, '..', 'spritesheets', basePath, animName, filename)
SpritePath(fileName, animName) == <<fileName, animName>>

ZPosKeyDescending(layers) == [l \in Range(layers) |-> 0 - l.zPos]

ZPosKey(layers) == [l \in Range(layers) |-> l.zPos]

\* try { loadImage; drawImage } catch { skip }: one (layer, animation) pair.
DrawPair(cv, layer, anim, files) ==
    IF SpritePath(layer.fileName, anim.name) \in DOMAIN files
    THEN [cv EXCEPT
            !.px = DrawImage(cv.px, files[SpritePath(layer.fileName, anim.name)],
                             anim.y, layer.fileName),
            !.drawn = Append(cv.drawn, <<anim.name, layer>>)]
    ELSE cv

RECURSIVE DrawRow(_, _, _, _)
DrawRow(cv, sortedLayers, anim, files) ==
    IF sortedLayers = <<>> THEN cv
    ELSE DrawRow(DrawPair(cv, Head(sortedLayers), anim, files),
                 Tail(sortedLayers), anim, files)

RECURSIVE DrawRows(_, _, _, _)
DrawRows(cv, anims, sortedLayers, files) ==
    IF anims = <<>> THEN cv
    ELSE DrawRows(DrawRow(cv, sortedLayers, Head(anims), files),
                  Tail(anims), sortedLayers, files)

\* renderer generateSpritesheet: throws on a falsy bodyTypeName or a layers
\* value that is no array, and composes the sheet for everything else.
generateSpritesheet(def, files) ==
    IF def.bodyTypeName = "" \/ ~def.hasLayers
    THEN [ok |-> FALSE,
          error |-> "Invalid layer definition: missing bodyTypeName or layers array"]
    ELSE [ok |-> TRUE,
          canvas |-> DrawRows(BlankCanvas, ANIMATION_OFFSETS,
                              SortByKey(def.layers, ZPosKey(def.layers)), files)]

\* canvas.toBuffer('image/png'): a lossless encoding of the sheet, its size and
\* its pixels that are not transparent.
toBuffer(canvas) ==
    [width |-> canvas.width, height |-> canvas.height,
     painted |-> {<<c, canvas.px[c]>> : c \in {q \in DOMAIN canvas.px : canvas.px[q] # ""}}]

(***************************************************************************)
(* Specification SpecRender: generateSpritesheet applied to a definition   *)
(* over every store of sprite files for two layers and two animations.     *)
(***************************************************************************)
Images == SUBSET ProbeXs

ProbeAnims == {"walk", "hurt"}

AssetStores ==
    UNION {[paths -> Images] :
             paths \in SUBSET {SpritePath(f, a) : f \in FileNames, a \in ProbeAnims}}

RenderLayers == {Layer(f, z, "v") : f \in FileNames, z \in 1..2}

RenderDefs ==
    {Definition("male", ls) : ls \in SeqsUpTo(RenderLayers, MaxRenderLayers)}
    \cup {Definition("", <<Layer("body/a.png", 1, "v")>>),
          NoLayersDefinition("male"),
          Definition("male", <<Layer("", 1, "v")>>),
          Definition("male", <<BadZLayer("body/a.png", "v")>>)}

InitRender ==
    /\ disk = IdleDisk /\ mem = IdleMem /\ now = 0 /\ res = NoRes
    /\ dirExists = FALSE
    /\ ADMIN_API_KEY = AdminKey /\ client = KeyInHeader(AdminKey)
    /\ calls = NoCalls
    /\ assets \in AssetStores
    /\ \E d \in RenderDefs : arg = [fn |-> "generateSpritesheet", def |-> d]
    /\ ret = NoRet

ApplyRender ==
    /\ arg.fn = "generateSpritesheet" /\ ret = NoRet
    /\ ret' = [fn |-> "generateSpritesheet"] @@ generateSpritesheet(arg.def, assets)
    /\ UNCHANGED <<disk, mem, now, res, assets, arg, dirExists, ADMIN_API_KEY, client, calls>>

NextRender == ApplyRender

SpecRender == InitRender /\ [][NextRender]_vars

\* server.js validation of POST /api/generate, the preconditions of render.
ValidDefinition(def) ==
    /\ ~def.isNull
    /\ def.bodyTypeName # ""
    /\ def.hasLayers
    /\ Len(def.layers) > 0
    /\ \A i \in DOMAIN def.layers : def.layers[i].fileName # "" /\ def.layers[i].zNum

\* C9: generateSpritesheet rejects every definition that violates a
\* precondition (empty body type, layers missing or empty, a layer with an
\* empty file name or a non-numeric zPos).
C9_RenderRejectsInvalid ==
    (ret.fn = "generateSpritesheet" /\ ~ValidDefinition(arg.def)) => ~ret.ok

\* The order the layers of an accepted definition are to be drawn in, given
\* as the input positions: ascending zPos, equal zPos in input order.
ZOrderOf(layers) ==
    CHOOSE p \in [DOMAIN layers -> DOMAIN layers] :
        /\ \A i, j \in DOMAIN layers : p[i] = p[j] => i = j
        /\ \A i, j \in DOMAIN layers :
             i < j => \/ layers[p[i]].zPos < layers[p[j]].zPos
                      \/ layers[p[i]].zPos = layers[p[j]].zPos /\ p[i] < p[j]

HasAsset(layer, animName) == SpritePath(layer.fileName, animName) \in DOMAIN assets

OpaqueAt(layer, animName, x) ==
    HasAsset(layer, animName) /\ x \in assets[SpritePath(layer.fileName, animName)]

AnimIndex(animName) ==
    CHOOSE i \in DOMAIN ANIMATION_OFFSETS : ANIMATION_OFFSETS[i].name = animName

\* The input position of the layer on top among the positions in cand.
TopOf(layers, cand) ==
    CHOOSE t \in cand :
        \A j \in cand : \/ layers[j].zPos < layers[t].zPos
                        \/ layers[j].zPos = layers[t].zPos /\ j <= t

DrawnInZOrder ==
    LET layers == arg.def.layers
        ordered == [i \in DOMAIN layers |-> layers[ZOrderOf(layers)[i]]]
        drawn == ret.canvas.drawn
    IN  /\ \A k, m \in DOMAIN drawn :
              k < m => AnimIndex(drawn[k][1]) <= AnimIndex(drawn[m][1])
        /\ \A a \in DOMAIN ANIMATION_OFFSETS :
              LET name == ANIMATION_OFFSETS[a].name
                  OfRow(e) == e[1] = name
                  Found(l) == HasAsset(l, name)
                  row == SelectSeq(drawn, OfRow)
              IN  [k \in DOMAIN row |-> row[k][2]] = SelectSeq(ordered, Found)

Put(f, k, v) == [x \in DOMAIN f \cup {k} |-> IF x = k THEN v ELSE f[x]]

Remove(f, k) == [x \in DOMAIN f \ {k} |-> f[x]]

\* cache.js getCachePath: the file `${hash}.png` of the cache directory.  A
\* file name is base followed by rest, base holding the digest a cache file
\* is named after and nothing for a file named otherwise.
getCachePath(hash) == [base |-> <<hash>>, ext |-> ".png"]

\* f.endsWith('.png')
endsWithPng(f) == f.ext = ".png"

pngFilesUnfiltered(dk) == DOMAIN dk

\* files.filter(f => f.endsWith('.png'))
pngFiles(dk) == {f \in DOMAIN dk : endsWithPng(f)}

\* cache.js getCachedSpritesheet: any exception, one thrown by
\* generateCacheKey on a layers value that cannot be spread included, is a miss.
getCachedSpritesheet(dk, def) ==
    IF def.hasLayers
       /\ getCachePath(generateCacheKey(def.bodyTypeName, def.layers)) \in DOMAIN dk
    THEN [hit |-> TRUE,
          hash |-> <<generateCacheKey(def.bodyTypeName, def.layers)>>,
          buffer |-> <<dk[getCachePath(generateCacheKey(def.bodyTypeName, def.layers))]>>]
    ELSE [hit |-> FALSE, hash |-> <<>>, buffer |-> <<>>]

\* cache.js saveCachedSpritesheet: mkdir + writeFile; an error is logged and
\* null returned.  writeOk is whether the file system accepts the write.
saveCachedSpritesheet(dk, def, buffer, writeOk) ==
    IF def.hasLayers /\ writeOk
    THEN [hash |-> <<generateCacheKey(def.bodyTypeName, def.layers)>>,
          disk |-> Put(dk, getCachePath(generateCacheKey(def.bodyTypeName, def.layers)),
                       buffer)]
    ELSE [hash |-> <<>>, disk |-> dk]

\* new NodeCache({ stdTTL: 3600, ... }): one hour.
stdTTL == 1

MemKeySortedLayers(def) ==
    [bodyTypeName |-> def.bodyTypeName, hasLayers |-> def.hasLayers,
     layers |-> SortedForKey(def.layers)]

\* JSON.stringify({ bodyTypeName, layers }): the request as sent.
MemKey(def) ==
    [bodyTypeName |-> def.bodyTypeName, hasLayers |-> def.hasLayers, layers |-> def.layers]

cacheGetNeverExpires(mm, key, t) ==
    IF key \in DOMAIN mm
    THEN [hit |-> TRUE, v |-> <<mm[key].v>>, mem |-> mm]
    ELSE [hit |-> FALSE, v |-> <<>>, mem |-> mm]

\* NodeCache get: an entry past its expiry is deleted and reported missing.
cacheGet(mm, key, t) ==
    IF key \in DOMAIN mm /\ ~(mm[key].t < t)
    THEN [hit |-> TRUE, v |-> <<mm[key].v>>, mem |-> mm]
    ELSE [hit |-> FALSE, v |-> <<>>,
          mem |-> IF key \in DOMAIN mm THEN Remove(mm, key) ELSE mm]

cacheSetDropsOthers(mm, key, buffer, t) == key :> [v |-> buffer, t |-> t + stdTTL]

cacheSetNothing(mm, key, buffer, t) == mm

\* NodeCache set with the default ttl.
cacheSet(mm, key, buffer, t) == Put(mm, key, [v |-> buffer, t |-> t + stdTTL])

\* server.js:137-139: the write-through to disk is commented out.
organicDiskSaveEnabled(dk, def, buffer) == saveCachedSpritesheet(dk, def, buffer, TRUE).disk

organicDiskSave(dk, def, buffer) == dk

TierOrderMemoryFirst(diskHit, memHit) ==
    IF memHit THEN "MEMORY-HIT" ELSE IF diskHit THEN "DISK-HIT" ELSE "NONE"

\* The order the tiers are asked in: disk, then memory.
TierOrder(diskHit, memHit) ==
    IF diskHit THEN "DISK-HIT" ELSE IF memHit THEN "MEMORY-HIT" ELSE "NONE"

\* The sprite files of the running service.
DefaultAssets ==
    (SpritePath("body/a.png", "walk") :> {0, FRAME_SIZE})
    @@ (SpritePath("body/a.png", "hurt") :> {0})
    @@ (SpritePath("hair/b.png", "walk") :> {0})

\* The request items of the model: a definition, its layers reordered, and
\* malformed items.
dAB == Definition("male", <<Layer("body/a.png", 1, "v"), Layer("hair/b.png", 1, "v")>>)

dBA == Definition("male", <<Layer("hair/b.png", 1, "v"), Layer("body/a.png", 1, "v")>>)

dNoBody == Definition("", <<Layer("body/a.png", 1, "v")>>)

Items == {dAB, dBA, dNoBody, NullItem}

\* The request items of the specification of the disk store: two definitions
\* with different cache keys and one the engine rejects.
dA == Definition("male", <<Layer("body/a.png", 1, "v")>>)

StoreItems == {dAB, dA, dNoBody}

\* server.js:131-132: generateSpritesheet, then canvas.toBuffer, over the
\* service's sprite files, which no handler changes (assets = DefaultAssets
\* throughout).  buffer holds the encoded sheet when the engine did not throw.
RenderToBuffer(def, files) ==
    LET canvas == generateSpritesheet(def, files)
    IN  IF canvas.ok
        THEN [ok |-> TRUE, error |-> "", buffer |-> <<toBuffer(canvas.canvas)>>]
        ELSE [ok |-> FALSE, error |-> canvas.error, buffer |-> <<>>]

RenderTable == {<<d, RenderToBuffer(d, DefaultAssets)>> : d \in Items \cup StoreItems}

Render(def) == (CHOOSE p \in RenderTable : p[1] = def)[2]

StoreAfterRenderAlways(mm, key, gen, t) ==
    cacheSet(mm, key, IF gen.ok THEN gen.buffer[1] ELSE toBuffer(BlankCanvas), t)

\* server.js:131-135: cache.set follows generateSpritesheet inside the try
\* block, so a throw of the engine skips it.
StoreAfterRender(mm, key, gen, t) ==
    IF gen.ok THEN cacheSet(mm, key, gen.buffer[1], t) ELSE mm

(***************************************************************************)
(* The resolution chain shared by POST /api/generate (server.js:102-152)   *)
(* and each item of POST /api/generate-batch (server.js:205-279).  ok is   *)
(* FALSE when generateSpritesheet threw; rendered counts engine runs.      *)
(***************************************************************************)
ResolveItem(def, dk, mm, t) ==
    LET diskCached == getCachedSpritesheet(dk, def)
        cacheKey == MemKey(def)
        memoryCached == cacheGet(mm, cacheKey, t)
        tier == TierOrder(diskCached.hit, memoryCached.hit)
        gen == Render(def)
    IN  IF tier = "DISK-HIT"
        THEN [ok |-> TRUE, cacheStatus |-> "DISK-HIT", cacheKey |-> diskCached.hash,
              data |-> diskCached.buffer, error |-> "", rendered |-> 0,
              mem |-> mm, disk |-> dk]
        ELSE IF tier = "MEMORY-HIT"
        THEN [ok |-> TRUE, cacheStatus |-> "MEMORY-HIT", cacheKey |-> <<>>,
              data |-> memoryCached.v, error |-> "", rendered |-> 0,
              mem |-> memoryCached.mem, disk |-> dk]
        ELSE IF ~gen.ok
        THEN [ok |-> FALSE, cacheStatus |-> "ERROR", cacheKey |-> <<>>,
              data |-> <<>>, error |-> gen.error, rendered |-> 0,
              mem |-> StoreAfterRender(memoryCached.mem, cacheKey, gen, t), disk |-> dk]
        ELSE [ok |-> TRUE, cacheStatus |-> "GENERATED", cacheKey |-> <<>>,
              data |-> gen.buffer, error |-> "", rendered |-> 1,
              mem |-> StoreAfterRender(memoryCached.mem, cacheKey, gen, t),
              disk |-> organicDiskSave(dk, def, gen.buffer[1])]

Flip(seq) == 1 - seq

Init ==
    /\ disk = IdleDisk /\ mem = IdleMem /\ now = 0 /\ res = NoRes
    /\ dirExists = FALSE
    /\ ADMIN_API_KEY = AdminKey /\ client = KeyInHeader(AdminKey)
    /\ calls = NoCalls
    /\ assets = DefaultAssets
    /\ arg = NoArg /\ ret = NoRet

(***************************************************************************)
(* POST /api/generate (server.js:71-161).  A request without a body object  *)
(* makes the destructuring at line 75 throw into the catch block.          *)
(***************************************************************************)
Generate(def) ==
    LET r == ResolveItem(def, disk, mem, now)
        base == [op |-> "generate", seq |-> Flip(res.seq), req |-> <<def>>,
                 startTime |-> now]
    IN  IF def.isNull
        THEN /\ res' = base @@ [status |-> 500, xCache |-> "", xCacheKey |-> <<>>,
                                body |-> <<>>, rendered |-> 0]
             /\ UNCHANGED <<disk, mem>>
        ELSE IF ~ValidDefinition(def)
        THEN /\ res' = base @@ [status |-> 400, xCache |-> "", xCacheKey |-> <<>>,
                                body |-> <<>>, rendered |-> 0]
             /\ UNCHANGED <<disk, mem>>
        ELSE /\ res' = base @@
                  [status |-> IF r.ok THEN 200 ELSE 500,
                   xCache |-> IF r.cacheStatus = "GENERATED" THEN "MISS"
                              ELSE IF r.ok THEN r.cacheStatus ELSE "",
                   xCacheKey |-> r.cacheKey, body |-> r.data, rendered |-> r.rendered]
             /\ mem' = r.mem
             /\ disk' = r.disk

GenerateStep == \E def \in Items : Generate(def) /\ UNCHANGED <<now, assets, arg, ret, dirExists, ADMIN_API_KEY, client, calls>>

(***************************************************************************)
(* POST /api/generate-batch (server.js:174-304).                           *)
(***************************************************************************)
maxBatchSize == 200

\* buffer.toString('base64'): an injective text encoding of the bytes.
toBase64(buffer) == [base64 |-> buffer]

\* One iteration of the loop over definitions.  Destructuring a null item
\* throws outside the item's try block and ends the loop in the outer catch.
BatchItem(acc, def, dk, t) ==
    LET r == ResolveItem(def, dk, acc.mem, t)
    IN  IF acc.thrown THEN acc
        ELSE IF def.isNull THEN [acc EXCEPT !.thrown = TRUE]
        ELSE [thrown |-> FALSE,
              mem |-> r.mem,
              disk |-> r.disk,
              results |-> Append(acc.results,
                  [bodyTypeName |-> def.bodyTypeName, success |-> r.ok,
                   cacheStatus |-> r.cacheStatus, cacheKey |-> r.cacheKey,
                   data |-> IF r.ok THEN <<toBase64(r.data[1])>> ELSE <<>>,
                   error |-> r.error]),
              diskHits |-> acc.diskHits + (IF r.cacheStatus = "DISK-HIT" THEN 1 ELSE 0),
              memoryHits |-> acc.memoryHits + (IF r.cacheStatus = "MEMORY-HIT" THEN 1 ELSE 0),
              generated |-> acc.generated + (IF r.cacheStatus = "GENERATED" THEN 1 ELSE 0),
              rendered |-> acc.rendered + r.rendered]

RECURSIVE BatchLoop(_, _, _)
BatchLoop(acc, defs, t) ==
    IF defs = <<>> THEN acc
    ELSE BatchLoop(BatchItem(acc, Head(defs), acc.disk, t), Tail(defs), t)

GenerateBatch(defs) ==
    LET start == [thrown |-> FALSE, mem |-> mem, disk |-> disk, results |-> <<>>,
                  diskHits |-> 0, memoryHits |-> 0, generated |-> 0, rendered |-> 0]
        end == BatchLoop(start, defs, now)
        base == [op |-> "generate-batch", seq |-> Flip(res.seq), req |-> defs,
                 startTime |-> now]
    IN  IF Len(defs) = 0 \/ Len(defs) > maxBatchSize
        THEN /\ res' = base @@ [status |-> 400, results |-> <<>>, summary |-> <<>>,
                                rendered |-> 0]
             /\ UNCHANGED <<disk, mem>>
        ELSE /\ res' = base @@
                  [status |-> IF end.thrown THEN 500 ELSE 200,
                   results |-> IF end.thrown THEN <<>> ELSE end.results,
                   summary |-> IF end.thrown THEN <<>>
                               ELSE <<[total |-> Len(end.results), diskHits |-> end.diskHits,
                                       memoryHits |-> end.memoryHits,
                                       generated |-> end.generated]>>,
                   rendered |-> end.rendered]
             /\ mem' = end.mem
             /\ disk' = end.disk

GenerateBatchStep(n) ==
    \E defs \in SeqsUpTo(Items, n) :
        GenerateBatch(defs) /\ UNCHANGED <<now, assets, arg, ret, dirExists, ADMIN_API_KEY, client, calls>>

(***************************************************************************)
(* POST /api/admin/cache/generate (admin router, lines 86-163).            *)
(* refused is the set of the positions of the items whose disk write the   *)
(* file system refuses.                                                    *)
(***************************************************************************)
PreGenerateItem(acc, def, writeOk) ==
    LET cached == getCachedSpritesheet(acc.disk, def)
        gen == Render(def)
        saved == saveCachedSpritesheet(acc.disk, def, gen.buffer[1], writeOk)
    IN  IF acc.thrown THEN acc
        ELSE IF def.isNull THEN [acc EXCEPT !.thrown = TRUE]
        ELSE IF cached.hit
        THEN [acc EXCEPT
                !.alreadyCached = @ + 1,
                !.results = Append(@, [bodyTypeName |-> def.bodyTypeName,
                                       status |-> "already_cached",
                                       hash |-> cached.hash, error |-> ""])]
        ELSE IF ~gen.ok
        THEN [acc EXCEPT
                !.failed = @ + 1,
                !.results = Append(@, [bodyTypeName |-> def.bodyTypeName,
                                       status |-> "failed",
                                       hash |-> <<>>, error |-> gen.error])]
        ELSE [acc EXCEPT
                !.disk = saved.disk,
                !.dirExists = @ \/ saved.hash # <<>>,
                !.generated = @ + 1,
                !.rendered = @ + 1,
                !.results = Append(@, [bodyTypeName |-> def.bodyTypeName,
                                       status |-> "generated",
                                       hash |-> saved.hash, error |-> ""])]

RECURSIVE PreGenerateLoop(_, _, _, _)
PreGenerateLoop(acc, defs, refused, i) ==
    IF i > Len(defs) THEN acc
    ELSE PreGenerateLoop(PreGenerateItem(acc, defs[i], i \notin refused), defs, refused, i + 1)

PreGenerate(defs, refused) ==
    LET start == [thrown |-> FALSE, disk |-> disk, dirExists |-> dirExists,
                  results |-> <<>>,
                  generated |-> 0, alreadyCached |-> 0, failed |-> 0, rendered |-> 0]
        end == PreGenerateLoop(start, defs, refused, 1)
    IN  /\ res' = [op |-> "cache/generate", seq |-> Flip(res.seq), req |-> defs,
                   refused |-> refused,
                   status |-> IF end.thrown THEN 500 ELSE 200,
                   results |-> IF end.thrown THEN <<>> ELSE end.results,
                   summary |-> IF end.thrown THEN <<>>
                               ELSE <<[total |-> Len(defs), generated |-> end.generated,
                                       alreadyCached |-> end.alreadyCached,
                                       failed |-> end.failed]>>,
                   rendered |-> end.rendered]
       /\ disk' = end.disk
       /\ dirExists' = end.dirExists
       /\ UNCHANGED mem

PreGenerateStep(n) ==
    \E defs \in SeqsUpTo(Items, n) : \E refused \in SUBSET DOMAIN defs :
        PreGenerate(defs, refused) /\ UNCHANGED <<now, assets, arg, ret, ADMIN_API_KEY, client, calls>>

(***************************************************************************)
(* DELETE /api/admin/cache/:hash and DELETE /api/admin/cache/clear.        *)
(***************************************************************************)
deleteCachedSpritesheetAny(dk, hash) ==
    IF dk # IdleDisk
    THEN [success |-> TRUE, message |-> "Deleted",
          disk |-> Remove(dk, CHOOSE f \in DOMAIN dk :
                                 f = getCachePath(hash) \/ getCachePath(hash) \notin DOMAIN dk)]
    ELSE [success |-> FALSE, message |-> "File not found", disk |-> dk]

deleteCachedSpritesheet(dk, hash) ==
    IF getCachePath(hash) \in DOMAIN dk
    THEN [success |-> TRUE, message |-> "Deleted", disk |-> Remove(dk, getCachePath(hash))]
    ELSE [success |-> FALSE, message |-> "File not found", disk |-> dk]

clearCacheKeepsFiles(dk, exists) ==
    [success |-> TRUE, deletedCount |-> Cardinality(pngFiles(dk)), error |-> "", disk |-> dk]

\* cache.js clearCache: readdir of a directory that does not exist throws
\* ENOENT into the catch block.
clearCache(dk, exists) ==
    IF exists
    THEN [success |-> TRUE, deletedCount |-> Cardinality(pngFiles(dk)), error |-> "",
          disk |-> [f \in DOMAIN dk \ pngFiles(dk) |-> dk[f]]]
    ELSE [success |-> FALSE, deletedCount |-> 0, error |-> "ENOENT", disk |-> dk]

Hashes == {generateCacheKey(d.bodyTypeName, d.layers) : d \in {x \in Items : x.hasLayers}}

DeleteOne(hash) ==
    LET result == deleteCachedSpritesheet(disk, hash)
    IN  /\ res' = [op |-> "cache/delete", seq |-> Flip(res.seq), req |-> <<hash>>,
                   status |-> IF result.success THEN 200 ELSE 404,
                   success |-> result.success]
        /\ disk' = result.disk
        /\ UNCHANGED mem

DeleteOneStep == \E hash \in Hashes : DeleteOne(hash) /\ UNCHANGED <<now, assets, arg, ret, dirExists, ADMIN_API_KEY, client, calls>>

Clear ==
    LET result == clearCache(disk, dirExists)
    IN  /\ res' = [op |-> "cache/clear", seq |-> Flip(res.seq), req |-> <<>>,
                   status |-> 200, success |-> result.success,
                   deletedCount |-> result.deletedCount, error |-> result.error]
        /\ disk' = result.disk
        /\ UNCHANGED <<mem, now, assets, arg, ret, dirExists, ADMIN_API_KEY, client, calls>>

(***************************************************************************)
(* Time passes; NodeCache's periodic check deletes the expired entries.    *)
(***************************************************************************)
Tick ==
    /\ now < MaxTime
    /\ now' = now + 1
    /\ UNCHANGED <<disk, mem, res, assets, arg, ret, dirExists, ADMIN_API_KEY, client, calls>>

Sweep ==
    /\ \E k \in DOMAIN mem : mem[k].t < now
    /\ mem' = [k \in {x \in DOMAIN mem : ~(mem[x].t < now)} |-> mem[k]]
    /\ UNCHANGED <<disk, now, res, assets, arg, ret, dirExists, ADMIN_API_KEY, client, calls>>

(***************************************************************************)
(* Spec: the handlers within one TTL window, batches of POST               *)
(* /api/generate-batch up to MaxBatch.  SpecAdmin: the admin handlers and  *)
(* POST /api/generate, batches of POST /api/admin/cache/generate up to     *)
(* MaxBatch.                                                               *)
(***************************************************************************)
Next ==
    \/ GenerateStep
    \/ GenerateBatchStep(MaxBatch)
    \/ PreGenerateStep(MaxSetup)
    \/ DeleteOneStep
    \/ Clear

Spec == Init /\ [][Next]_vars

NextAdmin ==
    \/ GenerateStep
    \/ PreGenerateStep(MaxBatch)
    \/ DeleteOneStep
    \/ Clear

SpecAdmin == Init /\ [][NextAdmin]_vars

\* SpecTTL: the resolving handlers while the clock runs past the lifetime of
\* a memory entry.
NextTTL ==
    \/ GenerateStep
    \/ GenerateBatchStep(MaxSetup)
    \/ Tick
    \/ Sweep

SpecTTL == Init /\ [][NextTTL]_vars

(***************************************************************************)
(* Properties of the resolution chain and of pre-generation.               *)
(***************************************************************************)
\* The step handled a request of the endpoint op.
Handled(op) == res'.seq # res.seq /\ res'.op = op

HashOf(def) == generateCacheKey(def.bodyTypeName, def.layers)

OnDisk(dk, def) == def.hasLayers /\ getCachePath(HashOf(def)) \in DOMAIN dk

\* The stores f and g agree on the key k.
SameEntry(f, g, k) ==
    /\ k \in DOMAIN f <=> k \in DOMAIN g
    /\ k \in DOMAIN f => f[k] = g[k]

\* A 200 response to one definition, of either resolving endpoint; the tier
\* it names (POST /api/generate calls a generated sheet MISS) and its bytes.
OneItem(r) ==
    /\ r.op \in {"generate", "generate-batch"}
    /\ r.status = 200
    /\ Len(r.req) = 1

TierOf(r) ==
    IF r.op = "generate"
    THEN (IF r.xCache = "MISS" THEN "GENERATED" ELSE r.xCache)
    ELSE r.results[1].cacheStatus

BytesOf(r) ==
    IF r.op = "generate" THEN r.body ELSE <<r.results[1].data[1].base64>>

Tiers(r) == {r.results[i].cacheStatus : i \in DOMAIN r.results}

C2_Step ==
    /\ (Handled("generate") /\ ValidDefinition(res'.req[1]) /\ OnDisk(disk, res'.req[1]))
         => /\ res'.status = 200
            /\ res'.xCache = "DISK-HIT"
            /\ res'.body = <<disk[getCachePath(HashOf(res'.req[1]))]>>
            /\ res'.rendered = 0
            /\ mem' = mem
    /\ (Handled("generate-batch") /\ res'.status = 200)
         => /\ \A i \in DOMAIN res'.req :
                 OnDisk(disk, res'.req[i])
                 => /\ res'.results[i].cacheStatus = "DISK-HIT"
                    /\ res'.results[i].data = <<toBase64(disk[getCachePath(HashOf(res'.req[i]))])>>
                    /\ SameEntry(mem, mem', MemKey(res'.req[i]))
            /\ (\A i \in DOMAIN res'.req : OnDisk(disk, res'.req[i]))
                 => (res'.rendered = 0 /\ mem' = mem)

\* C2: a definition whose fingerprint has a disk entry is answered DISK-HIT
\* with the bytes of that entry, whatever the memory cache holds under its
\* key, without a run of the engine and without a change of the memory cache.
C2_DiskHitPrecedence == [][C2_Step]_vars

\* A DISK-HIT answer while the memory cache holds other bytes under the key.
C2_Witness ==
    /\ res.op = "generate"
    /\ res.xCache = "DISK-HIT"
    /\ MemKey(res.req[1]) \in DOMAIN mem
    /\ <<mem[MemKey(res.req[1])].v>> # res.body

C3_Step ==
    /\ ( /\ res'.seq # res.seq
         /\ res'.op \in {"generate", "generate-batch"}
         /\ Len(res'.req) = 1
         /\ ValidDefinition(res'.req[1])
         /\ ~OnDisk(disk, res'.req[1])
         /\ ~cacheGet(mem, MemKey(res'.req[1]), now).hit )
         => /\ OneItem(res')
            /\ TierOf(res') = "GENERATED"
            /\ res'.rendered = 1
    /\ ( /\ OneItem(res)
         /\ TierOf(res) = "GENERATED"
         /\ res'.seq # res.seq
         /\ res'.op \in {"generate", "generate-batch"}
         /\ res'.req = res.req
         /\ now <= res.startTime + stdTTL )
         => /\ OneItem(res')
            /\ TierOf(res') = "MEMORY-HIT"
            /\ BytesOf(res') = BytesOf(res)
            /\ res'.rendered = 0

\* C3: with the definition in neither tier, a resolve is answered GENERATED
\* after one run of the engine, and the next resolve of the same definition,
\* no later than the lifetime of a memory entry after the first, is answered
\* MEMORY-HIT with the same bytes and no run of the engine.
C3_GeneratedThenMemoryHit == [][C3_Step]_vars

\* A MEMORY-HIT answer given after the clock advanced.
C3_Witness ==
    /\ OneItem(res)
    /\ TierOf(res) = "MEMORY-HIT"
    /\ res.startTime > 0

Counted(r, status) == Cardinality({i \in DOMAIN r.results : r.results[i].status = status})

\* C4: pre-generation answers every batch with one result per item, in input
\* order, and counts that add up to the number of items.
C4_EveryItemReported ==
    res.op = "cache/generate"
    => /\ res.status = 200
       /\ Len(res.results) = Len(res.req)
       /\ \A i \in DOMAIN res.req : res.results[i].bodyTypeName = res.req[i].bodyTypeName
       /\ res.summary[1].generated = Counted(res, "generated")
       /\ res.summary[1].alreadyCached = Counted(res, "already_cached")
       /\ res.summary[1].failed = Counted(res, "failed")
       /\ res.summary[1].generated + res.summary[1].alreadyCached
            + res.summary[1].failed = Len(res.req)

\* C5: an item that pre-generation reports generated has a disk entry under
\* its fingerprint that holds the sheet rendered for it, so a resolve that
\* follows is a disk hit with those bytes.
C5_GeneratedIsOnDisk ==
    (res.op = "cache/generate" /\ res.status = 200)
    => \A i \in DOMAIN res.req :
         res.results[i].status = "generated"
         => /\ OnDisk(disk, res.req[i])
            /\ disk[getCachePath(HashOf(res.req[i]))] = Render(res.req[i]).buffer[1]
            /\ res.results[i].hash = <<HashOf(res.req[i])>>

\* C6: an item of pre-generation whose disk write was refused is reported
\* failed and is counted as failed, not as generated.
C6_PutFailureReportedFailed ==
    (res.op = "cache/generate" /\ res.status = 200)
    => /\ \A i \in res.refused : res.results[i].status \in {"failed", "already_cached"}
       /\ res.summary[1].generated
            = Cardinality({i \in DOMAIN res.req : res.results[i].hash # <<>>
                                                  /\ res.results[i].status = "generated"})

C7_Step ==
    /\ (Handled("generate") \/ Handled("generate-batch")) => disk' = disk
    /\ disk' # disk => res'.op \in {"cache/generate", "cache/delete", "cache/clear"}

\* C7: the resolving endpoints leave the disk store as it was, whatever the
\* outcome; the disk store changes only in pre-generation, delete and clear.
C7_ResolveKeepsDisk == [][C7_Step]_vars

\* A batch answered with a generated and a memory-served item, disk untouched.
C7_Witness ==
    /\ res.op = "generate-batch"
    /\ res.status = 200
    /\ {"GENERATED", "MEMORY-HIT"} \subseteq Tiers(res)

C8_Step ==
    /\ (Handled("generate") /\ res'.status = 500) => (mem' = mem /\ disk' = disk)
    /\ (Handled("generate-batch") /\ res'.status = 200)
         => /\ \A i \in DOMAIN res'.req :
                 res'.results[i].cacheStatus = "ERROR"
                 => /\ SameEntry(mem, mem', MemKey(res'.req[i]))
                    /\ res'.req[i].hasLayers
                         => SameEntry(disk, disk', getCachePath(HashOf(res'.req[i])))
            /\ Tiers(res') = {"ERROR"} => (mem' = mem /\ disk' = disk)
    /\ (Handled("cache/generate") /\ res'.status = 200)
         => /\ \A i \in DOMAIN res'.req :
                 res'.results[i].status = "failed"
                 => /\ SameEntry(mem, mem', MemKey(res'.req[i]))
                    /\ res'.req[i].hasLayers
                         => SameEntry(disk, disk', getCachePath(HashOf(res'.req[i])))
            /\ Counted(res', "failed") = Len(res'.req) => (mem' = mem /\ disk' = disk)

\* C8: a resolve or a pre-generation item whose run of the engine fails
\* leaves the entries of both tiers for that definition as they were.
C8_EngineFailureKeepsTiers == [][C8_Step]_vars

\* A batch in which one item failed in the engine and another was generated.
C8_Witness ==
    /\ res.op = "generate-batch"
    /\ res.status = 200
    /\ {"ERROR", "GENERATED"} \subseteq Tiers(res)

(***************************************************************************)
(* Properties of the sheet.                                                *)
(***************************************************************************)
\* No sprite file is found for any layer of the definition.
EveryLookupMisses(def) ==
    \A i \in DOMAIN def.layers : \A a \in DOMAIN ANIMATION_OFFSETS :
        ~HasAsset(def.layers[i], ANIMATION_OFFSETS[a].name)

\* C11: whichever sprite files are found, an accepted definition yields a
\* sheet 832 wide and 3456 high, encoded with that size, and the sheet is
\* fully transparent when no sprite file is found.
C11_FixedSheetSize ==
    (ret.fn = "generateSpritesheet" /\ ret.ok) =>
        /\ ret.canvas.width = 832 /\ ret.canvas.height = 3456
        /\ toBuffer(ret.canvas).width = 832 /\ toBuffer(ret.canvas).height = 3456
        /\ EveryLookupMisses(arg.def) =>
             /\ \A c \in ProbePixels : ret.canvas.px[c] = ""
             /\ toBuffer(ret.canvas).painted = {}

\* A sheet of two layers rendered with no sprite file found.
C11_Witness ==
    /\ ret.fn = "generateSpritesheet" /\ ret.ok
    /\ Len(arg.def.layers) = 2
    /\ EveryLookupMisses(arg.def)
    /\ ret.canvas.drawn = <<>>

(***************************************************************************)
(* The observing operations of the admin router: GET /cache/list, GET      *)
(* /cache/stats and POST /cache/warmup.  readdirOk is whether the file     *)
(* system lets the directory be read; every error ends in the catch block  *)
(* of the cache.js function, which returns the value of an empty store.    *)
(***************************************************************************)
\* buffer.length / stats.size: a PNG file is never empty.
ByteLength(buffer) == 1 + Cardinality(buffer.painted)

RECURSIVE SumOfSizes(_, _)
SumOfSizes(dk, files) ==
    IF files = {} THEN 0
    ELSE LET f == CHOOSE x \in files : TRUE
         IN  ByteLength(dk[f]) + SumOfSizes(dk, files \ {f})

listCachedSpritesheets(dk, exists, readdirOk) ==
    IF exists /\ readdirOk THEN pngFiles(dk) ELSE {}

getCacheStats(dk, exists, readdirOk) ==
    IF exists /\ readdirOk
    THEN [count |-> Cardinality(pngFiles(dk)), totalSize |-> SumOfSizes(dk, pngFiles(dk))]
    ELSE [count |-> 0, totalSize |-> 0]

List(readdirOk) ==
    LET files == listCachedSpritesheets(disk, dirExists, readdirOk)
    IN  /\ res' = [op |-> "cache/list", seq |-> Flip(res.seq), req |-> <<>>,
                   fault |-> ~readdirOk, status |-> 200, success |-> TRUE,
                   count |-> Cardinality(files), files |-> files]
        /\ UNCHANGED <<disk, mem, now, assets, arg, ret, dirExists, ADMIN_API_KEY, client, calls>>

Stats(readdirOk) ==
    LET stats == getCacheStats(disk, dirExists, readdirOk)
    IN  /\ res' = [op |-> "cache/stats", seq |-> Flip(res.seq), req |-> <<>>,
                   fault |-> ~readdirOk, status |-> 200, success |-> TRUE,
                   stats |-> stats]
        /\ UNCHANGED <<disk, mem, now, assets, arg, ret, dirExists, ADMIN_API_KEY, client, calls>>

Warmup(readdirOk) ==
    LET files == listCachedSpritesheets(disk, dirExists, readdirOk)
    IN  /\ res' = [op |-> "cache/warmup", seq |-> Flip(res.seq), req |-> <<>>,
                   fault |-> ~readdirOk, status |-> 200, success |-> TRUE,
                   count |-> Cardinality(files)]
        /\ UNCHANGED <<disk, mem, now, assets, arg, ret, dirExists, ADMIN_API_KEY, client, calls>>

ListStep == \E readdirOk \in BOOLEAN : List(readdirOk)

StatsStep == \E readdirOk \in BOOLEAN : Stats(readdirOk)

WarmupStep == \E readdirOk \in BOOLEAN : Warmup(readdirOk)

(***************************************************************************)
(* SpecStore: the admin operations on the disk store, from a checkout with *)
(* or without a cache directory.                                           *)
(***************************************************************************)
StoreHashes ==
    {generateCacheKey(d.bodyTypeName, d.layers) : d \in {x \in StoreItems : x.hasLayers}}

InitStore ==
    /\ disk = IdleDisk /\ mem = IdleMem /\ now = 0 /\ res = NoRes
    /\ dirExists \in BOOLEAN
    /\ ADMIN_API_KEY = AdminKey /\ client = KeyInHeader(AdminKey)
    /\ calls = NoCalls
    /\ assets = DefaultAssets
    /\ arg = NoArg /\ ret = NoRet

PreGenerateStoreStep ==
    \E defs \in SeqsUpTo(StoreItems, MaxBatch) : \E refused \in SUBSET DOMAIN defs :
        PreGenerate(defs, refused) /\ UNCHANGED <<now, assets, arg, ret, ADMIN_API_KEY, client, calls>>

DeleteOneStoreStep ==
    \E hash \in StoreHashes :
        DeleteOne(hash) /\ UNCHANGED <<now, assets, arg, ret, dirExists, ADMIN_API_KEY, client, calls>>

NextStore ==
    \/ PreGenerateStoreStep
    \/ DeleteOneStoreStep
    \/ Clear
    \/ ListStep
    \/ StatsStep
    \/ WarmupStep

SpecStore == InitStore /\ [][NextStore]_vars

(***************************************************************************)
(* Properties of the disk store operations.                                *)
(***************************************************************************)
C12_Step ==
    /\ Handled("cache/clear")
         => /\ disk' = IdleDisk
            /\ listCachedSpritesheets(disk', dirExists', TRUE) = {}
            /\ getCacheStats(disk', dirExists', TRUE) = [count |-> 0, totalSize |-> 0]
            /\ res'.deletedCount = Cardinality(DOMAIN disk)
    /\ (res.op = "cache/clear" /\ Handled("cache/list") /\ ~res'.fault)
         => (res'.status = 200 /\ res'.files = {} /\ res'.count = 0)
    /\ (res.op = "cache/clear" /\ Handled("cache/stats") /\ ~res'.fault)
         => (res'.status = 200 /\ res'.stats = [count |-> 0, totalSize |-> 0])

C13_Step ==
    Handled("cache/delete")
    => LET F == res'.req[1]
           file == getCachePath(F)
       IN  /\ res'.status = 200 <=> file \in DOMAIN disk
           /\ res'.status = 404 <=> file \notin DOMAIN disk
           /\ res'.success <=> file \in DOMAIN disk
           /\ file \notin DOMAIN disk'
           /\ \A f \in (DOMAIN disk \cup DOMAIN disk') \ {file} : SameEntry(disk, disk', f)

C14_TierAndFingerprint ==
    /\ (res.op = "generate" /\ res.status = 200)
         => /\ TierOf(res) \in {"DISK-HIT", "MEMORY-HIT", "GENERATED"}
            /\ res.xCacheKey = <<HashOf(res.req[1])>>
    /\ (res.op = "generate-batch" /\ res.status = 200)
         => \A i \in DOMAIN res.results :
              res.results[i].success
              => /\ res.results[i].cacheStatus \in {"DISK-HIT", "MEMORY-HIT", "GENERATED"}
                 /\ res.results[i].cacheKey = <<HashOf(res.req[i])>>

\* The memory entry under key k is past its expiry at time t.
Expired(mm, k, t) == k \in DOMAIN mm /\ mm[k].t < t

C15_Step ==
    ( /\ res'.seq # res.seq
      /\ res'.op \in {"generate", "generate-batch"}
      /\ Len(res'.req) = 1
      /\ ValidDefinition(res'.req[1])
      /\ ~OnDisk(disk, res'.req[1]) )
    => LET k == MemKey(res'.req[1])
       IN  /\ OneItem(res')
           /\ TierOf(res') = "MEMORY-HIT"
                => /\ k \in DOMAIN mem /\ ~Expired(mem, k, now)
                   /\ BytesOf(res') = <<mem[k].v>>
                   /\ res'.rendered = 0
                   /\ mem' = mem
           /\ (k \notin DOMAIN mem \/ Expired(mem, k, now))
                => /\ TierOf(res') = "GENERATED"
                   /\ res'.rendered = 1
                   /\ k \in DOMAIN mem' /\ mem'[k].t = now + stdTTL

C16_StorageFailureSurfaced ==
    /\ (res.op \in {"cache/list", "cache/stats", "cache/warmup"} /\ res.fault)
         => (res.status # 200 \/ ~res.success)
    /\ (res.op = "cache/generate" /\ res.status = 200)
         => \A i \in res.refused :
              res.results[i].status = "generated" => res.results[i].hash # <<>>

\* C17: on a cache directory that is empty or does not exist, list answers
\* no file, stats answers count 0 and size 0, warmup answers count 0 and
\* clear answers 0 deleted; none of them fails and the store stays empty.
C17_EmptyStoreObservations ==
    /\ (res.op = "cache/list" /\ ~res.fault /\ disk = IdleDisk)
         => (res.status = 200 /\ res.success /\ res.files = {} /\ res.count = 0)
    /\ (res.op = "cache/stats" /\ ~res.fault /\ disk = IdleDisk)
         => (res.status = 200 /\ res.success
             /\ res.stats = [count |-> 0, totalSize |-> 0])
    /\ (res.op = "cache/warmup" /\ ~res.fault /\ disk = IdleDisk)
         => (res.status = 200 /\ res.success /\ res.count = 0)
    /\ (res.op = "cache/clear" /\ res.deletedCount = 0)
         => (res.status = 200 /\ res.success /\ res.error = "" /\ disk = IdleDisk)

(***************************************************************************)
(* Specification SpecKeyEdit: generateCacheKey applied to a definition and *)
(* to the same definition with the value of one field changed.             *)
(***************************************************************************)
EditZs == {1, Infinity, 0 - Infinity}

EditLayers == {Layer(f, z, v) : f \in FileNames, z \in EditZs, v \in {"v", "w"}}

\* The definitions that differ from (b, ls) in the value of exactly one field.
SingleFieldEdits(b, ls) ==
    {[bodyTypeName |-> b2, layers |-> ls] : b2 \in {"male", "female"} \ {b}}
    \cup {[bodyTypeName |-> b, layers |-> [ls EXCEPT ![i].fileName = f]] :
            i \in DOMAIN ls, f \in FileNames}
    \cup {[bodyTypeName |-> b, layers |-> [ls EXCEPT ![i].zPos = z]] :
            i \in DOMAIN ls, z \in EditZs}
    \cup {[bodyTypeName |-> b, layers |-> [ls EXCEPT ![i].variant = v]] :
            i \in DOMAIN ls, v \in {"v", "w"}}

InitKeyEdit ==
    /\ disk = IdleDisk /\ mem = IdleMem /\ now = 0 /\ res = NoRes
    /\ dirExists = FALSE
    /\ ADMIN_API_KEY = AdminKey /\ client = KeyInHeader(AdminKey)
    /\ calls = NoCalls
    /\ assets = NoAssets
    /\ \E b \in {"male", "female"} :
         \E ls \in SeqsUpTo(EditLayers, MaxKeyLayers) :
           \E e \in SingleFieldEdits(b, ls) :
             /\ e.layers # ls \/ e.bodyTypeName # b
             /\ arg = [fn |-> "generateCacheKey", bodyTypeName |-> b,
                       layers |-> ls, edited |-> e]
    /\ ret = NoRet

ApplyKeyEdit ==
    /\ arg.fn = "generateCacheKey" /\ ret = NoRet
    /\ ret' = [fn |-> "generateCacheKey",
               hash |-> generateCacheKey(arg.bodyTypeName, arg.layers),
               hashEdited |-> generateCacheKey(arg.edited.bodyTypeName,
                                               arg.edited.layers)]
    /\ UNCHANGED <<disk, mem, now, res, assets, arg, dirExists, ADMIN_API_KEY, client, calls>>

NextKeyEdit == ApplyKeyEdit

SpecKeyEdit == InitKeyEdit /\ [][NextKeyEdit]_vars

\* C18: two definitions that differ in the value of exactly one field (the
\* body type, or one layer's fileName, zPos or variant) get different cache
\* keys.
C18_SingleFieldChangesKey ==
    ret.fn = "generateCacheKey" => ret.hash # ret.hashEdited

(***************************************************************************)
(* admin router: adminAuth runs before every route (router.use).           *)
(***************************************************************************)
adminAuthWithoutConfigCheck(configured, headerKey, queryKey) ==
    LET apiKey == IF headerKey # "" THEN headerKey ELSE queryKey
    IN  IF apiKey # configured
        THEN [next |-> FALSE, status |-> 401, error |-> "Unauthorized"]
        ELSE [next |-> TRUE, status |-> 200, error |-> ""]

adminAuth(configured, headerKey, queryKey) ==
    LET apiKey == IF headerKey # "" THEN headerKey ELSE queryKey
    IN  IF configured = ""
        THEN [next |-> FALSE, status |-> 500,
              error |-> "Admin API key not configured on server"]
        ELSE IF apiKey # configured
        THEN [next |-> FALSE, status |-> 401, error |-> "Unauthorized"]
        ELSE [next |-> TRUE, status |-> 200, error |-> ""]

\* A request to an admin route: the route's handler runs only after adminAuth
\* called next(); otherwise adminAuth has sent the response.
adminRouter(route, handler) ==
    LET auth == adminAuth(ADMIN_API_KEY, client.header, client.query)
    IN  IF auth.next
        THEN handler
        ELSE /\ res' = [op |-> route, seq |-> Flip(res.seq),
                        status |-> auth.status, error |-> auth.error]
             /\ UNCHANGED <<disk, mem, now, assets, arg, ret, dirExists,
                            ADMIN_API_KEY, client, calls>>

(***************************************************************************)
(* Specification SpecAuth: the admin routes behind adminAuth, called by a  *)
(* client that sends any, no or the configured key, on a deployment with   *)
(* or without ADMIN_API_KEY.                                               *)
(***************************************************************************)
Keys == {"", AdminKey, "guess"}

Clients == [header : Keys, query : Keys]

AdminRoutes ==
    {"cache/stats", "cache/list", "cache/generate", "cache/clear",
     "cache/delete", "cache/warmup"}

InitAuth ==
    /\ disk = IdleDisk /\ mem = IdleMem /\ now = 0 /\ res = NoRes
    /\ dirExists \in BOOLEAN
    /\ ADMIN_API_KEY \in {"", AdminKey}
    /\ client \in Clients
    /\ calls = NoCalls
    /\ assets = DefaultAssets
    /\ arg = NoArg /\ ret = NoRet

AdminStats == adminRouter("cache/stats", Stats(TRUE))

AdminList == adminRouter("cache/list", List(TRUE))

AdminPreGenerate ==
    \E defs \in SeqsUpTo(StoreItems, MaxSetup) :
        adminRouter("cache/generate",
                    PreGenerate(defs, {})
                    /\ UNCHANGED <<now, assets, arg, ret, ADMIN_API_KEY, client, calls>>)

AdminClear == adminRouter("cache/clear", Clear)

AdminDeleteOne ==
    \E hash \in StoreHashes :
        adminRouter("cache/delete",
                    DeleteOne(hash)
                    /\ UNCHANGED <<now, assets, arg, ret, dirExists,
                                   ADMIN_API_KEY, client, calls>>)

AdminWarmup == adminRouter("cache/warmup", Warmup(TRUE))

\* The client sends other credentials from now on.
ChangeClient ==
    /\ \E c \in Clients : client' = c
    /\ UNCHANGED <<disk, mem, now, res, assets, arg, ret, dirExists,
                   ADMIN_API_KEY, calls>>

NextAuth ==
    \/ AdminStats
    \/ AdminList
    \/ AdminPreGenerate
    \/ AdminClear
    \/ AdminDeleteOne
    \/ AdminWarmup
    \/ ChangeClient

SpecAuth == InitAuth /\ [][NextAuth]_vars

PresentsAdminKey ==
    ADMIN_API_KEY # "" /\ ADMIN_API_KEY \in {client.header, client.query}

C19_Step ==
    \A route \in AdminRoutes :
      (Handled(route) /\ ~PresentsAdminKey) =>
          /\ res'.status \in {401, 500}
          /\ DOMAIN res' = {"op", "seq", "status", "error"}
          /\ ADMIN_API_KEY = "" => res'.status = 500
          /\ UNCHANGED <<disk, dirExists, mem>>

\* C19: an admin request that does not present the configured ADMIN_API_KEY
\* is answered 401 or 500 with an error only, and leaves the cache
\* directory and its files as they were; when no ADMIN_API_KEY is set every
\* admin request, one without a key included, is answered 500.
C19_AdminNeedsKey == [][C19_Step]_vars

C19_Witness ==
    /\ res.op = "cache/clear" /\ res.status = 401
    /\ DOMAIN res = {"op", "seq", "status", "error"}
    /\ ~PresentsAdminKey
    /\ disk # IdleDisk

\* C20: the bytes a 200 answer of POST /api/generate carries for a
\* definition, from whichever tier, are the bytes generateSpritesheet gives
\* for that definition itself, also when the cache entry was written for a
\* reordering of its layers.
C20_ResolvedBytesAreRender ==
    (res.op = "generate" /\ res.status = 200)
        => res.body = Render(res.req[1]).buffer

\* The memory entries written for the request def as sent, and those written
\* for the same body type with def's layers in another order.
SentAs(mm, def) ==
    {k \in DOMAIN mm : k.bodyTypeName = def.bodyTypeName /\ k.layers = def.layers}

SentReordered(mm, def) ==
    {k \in DOMAIN mm : /\ k.bodyTypeName = def.bodyTypeName
                       /\ k.layers # def.layers
                       /\ k.layers \in Reorderings(def.layers)}

C21_Step ==
    \A def \in Items :
      (res'.seq # res.seq /\ OneItem(res') /\ res'.req[1] = def /\ ValidDefinition(def)) =>
        /\ OnDisk(disk, def) => TierOf(res') = "DISK-HIT"
        /\ (~OnDisk(disk, def) /\ SentAs(mem, def) # {})
             => (TierOf(res') = "MEMORY-HIT" /\ mem' = mem)
        /\ (~OnDisk(disk, def) /\ SentAs(mem, def) = {} /\ SentReordered(mem, def) # {})
             => /\ TierOf(res') = "GENERATED"
                /\ Cardinality(DOMAIN mem') = Cardinality(DOMAIN mem) + 1
                /\ SentAs(mem', def) # {}
                /\ SentReordered(mem', def) = SentReordered(mem, def)

\* C21: within the lifetime of the memory entries and with no file on disk,
\* a request whose layers were sent before in another order only is
\* generated again and gets a second memory entry, a request sent before in
\* the same order is a MEMORY-HIT, and with a file on disk for their common
\* cache key either order is a DISK-HIT.
C21_MemoryKeyOrderSensitive == [][C21_Step]_vars

C21_Witness ==
    /\ res.op = "generate" /\ res.status = 200 /\ res.xCache = "MISS"
    /\ SentAs(mem, res.req[1]) # {}
    /\ SentReordered(mem, res.req[1]) # {}
    /\ ~OnDisk(disk, res.req[1])
    /\ res.rendered = 1

(***************************************************************************)
(* Specification SpecRace: POST /api/generate (server.js:71-161) handled   *)
(* for several requests at once.  The handler is suspended at its awaits:  *)
(* while fs.readFile of getCachedSpritesheet runs (line 103) and while     *)
(* generateSpritesheet loads the sprites (line 131); what lies between two *)
(* awaits runs without interruption on the event loop.  The response of a  *)
(* call is kept in calls.                                                  *)
(***************************************************************************)
CallIds == 1..MaxCalls

\* Two definitions with one cache key and different memory keys, and one
\* with another cache key.
RaceItems == {dAB, dBA, dA}

IdleCall ==
    [pc |-> "idle", def |-> NullItem, diskCached |-> getCachedSpritesheet(IdleDisk, NullItem),
     status |-> 0, xCache |-> "", body |-> <<>>]

\* The cache directory after an administrator pre-generated dA.
DiskWithA == saveCachedSpritesheet(IdleDisk, dA, Render(dA).buffer[1], TRUE).disk

InitRace ==
    /\ disk \in {IdleDisk, DiskWithA}
    /\ dirExists = (disk # IdleDisk)
    /\ mem = IdleMem /\ now = 0 /\ res = NoRes
    /\ ADMIN_API_KEY = AdminKey /\ client = KeyInHeader(AdminKey)
    /\ calls = [c \in CallIds |-> IdleCall]
    /\ assets = DefaultAssets
    /\ arg = NoArg /\ ret = NoRet

\* server.js:71-103: the request passes validation and getCachedSpritesheet
\* is called.
Receive(c) ==
    /\ calls[c].pc = "idle"
    /\ \E def \in RaceItems :
         calls' = [calls EXCEPT ![c].pc = "readFile", ![c].def = def]
    /\ UNCHANGED <<disk, mem, now, res, assets, arg, ret, dirExists, ADMIN_API_KEY, client>>

\* cache.js:39-49: fs.readFile reads the file, or fails.
ReadFile(c) ==
    /\ calls[c].pc = "readFile"
    /\ calls' = [calls EXCEPT ![c].pc = "diskCached",
                              ![c].diskCached = getCachedSpritesheet(disk, calls[c].def)]
    /\ UNCHANGED <<disk, mem, now, res, assets, arg, ret, dirExists, ADMIN_API_KEY, client>>

\* server.js:105-131: the handler resumes with diskCached, answers a disk
\* hit, else asks the memory cache and answers a hit, else calls
\* generateSpritesheet.
AfterDiskCheck(c) ==
    LET call == calls[c]
        memoryCached == cacheGet(mem, MemKey(call.def), now)
        tier == TierOrder(call.diskCached.hit, memoryCached.hit)
    IN  /\ call.pc = "diskCached"
        /\ IF tier = "DISK-HIT"
           THEN /\ calls' = [calls EXCEPT ![c].pc = "sent", ![c].status = 200,
                                          ![c].xCache = "DISK-HIT",
                                          ![c].body = call.diskCached.buffer]
                /\ mem' = mem
           ELSE IF tier = "MEMORY-HIT"
           THEN /\ calls' = [calls EXCEPT ![c].pc = "sent", ![c].status = 200,
                                          ![c].xCache = "MEMORY-HIT",
                                          ![c].body = memoryCached.v]
                /\ mem' = memoryCached.mem
           ELSE /\ calls' = [calls EXCEPT ![c].pc = "generateSpritesheet"]
                /\ mem' = memoryCached.mem
        /\ UNCHANGED <<disk, now, res, assets, arg, ret, dirExists, ADMIN_API_KEY, client>>

\* server.js:131-160: generateSpritesheet has settled; the sheet is encoded,
\* put in the memory cache and sent, or the catch block answers 500.
AfterGenerate(c) ==
    LET call == calls[c]
        gen == Render(call.def)
    IN  /\ call.pc = "generateSpritesheet"
        /\ mem' = StoreAfterRender(mem, MemKey(call.def), gen, now)
        /\ disk' = IF gen.ok THEN organicDiskSave(disk, call.def, gen.buffer[1]) ELSE disk
        /\ calls' = [calls EXCEPT ![c].pc = "sent",
                                  ![c].status = IF gen.ok THEN 200 ELSE 500,
                                  ![c].xCache = IF gen.ok THEN "MISS" ELSE "",
                                  ![c].body = gen.buffer]
        /\ UNCHANGED <<now, res, assets, arg, ret, dirExists, ADMIN_API_KEY, client>>

ReceiveStep == \E c \in CallIds : Receive(c)

ReadFileStep == \E c \in CallIds : ReadFile(c)

AfterDiskCheckStep == \E c \in CallIds : AfterDiskCheck(c)

AfterGenerateStep == \E c \in CallIds : AfterGenerate(c)

NextRace ==
    \/ ReceiveStep
    \/ ReadFileStep
    \/ AfterDiskCheckStep
    \/ AfterGenerateStep

SpecRace == InitRace /\ [][NextRace]_vars

Sent(c) == calls[c].pc = "sent"

CallTier(c) == IF calls[c].xCache = "MISS" THEN "GENERATED" ELSE calls[c].xCache

\* C22: two requests for the same definition that no tier holds, handled at
\* once, are both answered 200 with the same bytes, each as generated or as
\* a memory hit, and the memory cache then holds one entry for their key
\* with those bytes.
C22_DuplicateResolveAgrees ==
    \A c1, c2 \in CallIds :
      ( /\ c1 # c2 /\ Sent(c1) /\ Sent(c2)
        /\ calls[c1].def = calls[c2].def
        /\ ~OnDisk(disk, calls[c1].def) ) =>
          /\ calls[c1].status = 200 /\ calls[c2].status = 200
          /\ calls[c1].body = calls[c2].body
          /\ {CallTier(c1), CallTier(c2)} \subseteq {"GENERATED", "MEMORY-HIT"}
          /\ Cardinality(SentAs(mem, calls[c1].def)) = 1
          /\ MemKey(calls[c1].def) \in DOMAIN mem
          /\ <<mem[MemKey(calls[c1].def)].v>> = calls[c1].body

C22_Witness ==
    /\ Sent(1) /\ Sent(2)
    /\ calls[1].def = dAB /\ calls[2].def = dAB
    /\ calls[1].xCache = "MISS" /\ calls[2].xCache = "MISS"
    /\ calls[1].body = calls[2].body
    /\ <<mem[MemKey(dAB)].v>> = calls[2].body

\* What POST /api/generate answers for def when it is the only request, from
\* the directory dk and the memory cache mm.
Alone(def, dk, mm) == ResolveItem(def, dk, mm, 0)

C24_Independent ==
    \A c1, c2 \in CallIds :
      LET d1 == calls[c1].def
          d2 == calls[c2].def
          first == Alone(d1, disk, IdleMem)
          second == Alone(d2, disk, IdleMem)
          then12 == Alone(d2, disk, first.mem).mem
          then21 == Alone(d1, disk, second.mem).mem
      IN  ( /\ Sent(c1) /\ Sent(c2)
            /\ \A c \in CallIds \ {c1, c2} : calls[c].pc = "idle"
            /\ HashOf(d1) # HashOf(d2) /\ MemKey(d1) # MemKey(d2) ) =>
              /\ calls[c1].status = 200
              /\ CallTier(c1) = first.cacheStatus
              /\ calls[c1].body = first.data
              /\ \A k \in {MemKey(d1), MemKey(d2)} :
                    SameEntry(mem, then12, k) /\ SameEntry(mem, then21, k)

\* C24: requests for two definitions with different cache keys and different
\* memory keys, the only ones handled since the memory cache was empty and
\* handled at once, each get the
\* label and bytes they get when handled alone, and leave for their keys the
\* memory entries either sequential order leaves; the cache directory is
\* not changed.
C24_DistinctResolvesIndependent == []C24_Independent /\ [][disk' = disk]_vars

C24_Witness ==
    /\ Sent(1) /\ Sent(2)
    /\ calls[1].def = dA /\ calls[2].def = dAB
    /\ calls[1].xCache = "DISK-HIT" /\ calls[2].xCache = "MISS"
    /\ calls[1].body # calls[2].body
    /\ DOMAIN mem = {MemKey(dAB)}

(***************************************************************************)
(* Specification SpecWrite: saveCachedSpritesheet (cache.js:54-68) step by *)
(* step, next to getCachedSpritesheet.  fs.writeFile opens the file of the *)
(* cache key itself with flag 'w', which empties it, and then writes the   *)
(* buffer; the process can be stopped between any two steps.               *)
(***************************************************************************)
\* The file between open(path, 'w') and the end of the writes: a proper
\* prefix of a buffer (here the empty one), which is no PNG of a sheet.
TruncatedFile == [width |-> 0, height |-> 0, painted |-> {}]

\* The directory after an administrator pre-generated dAB.
DiskWithAB == saveCachedSpritesheet(IdleDisk, dAB, Render(dAB).buffer[1], TRUE).disk

InitWrite ==
    /\ disk \in {IdleDisk, DiskWithAB}
    /\ dirExists = (disk # IdleDisk)
    /\ mem = IdleMem /\ now = 0 /\ res = NoRes
    /\ ADMIN_API_KEY = AdminKey /\ client = KeyInHeader(AdminKey)
    /\ calls = [c \in CallIds |-> IdleCall]
    /\ assets = DefaultAssets
    /\ arg = NoArg /\ ret = NoRet

\* cache.js:54-60: saveCachedSpritesheet(bodyTypeName, layers, buffer) is
\* called with a rendered sheet and awaits fs.mkdir.
SaveCalled(c) ==
    /\ calls[c].pc = "idle"
    /\ \E def \in RaceItems :
         calls' = [calls EXCEPT ![c].pc = "mkdir", ![c].def = def,
                                ![c].body = Render(def).buffer]
    /\ UNCHANGED <<disk, mem, now, res, assets, arg, ret, dirExists, ADMIN_API_KEY, client>>

\* cache.js:60: fs.mkdir(dir, { recursive: true }).
Mkdir(c) ==
    /\ calls[c].pc = "mkdir"
    /\ dirExists' = TRUE
    /\ calls' = [calls EXCEPT ![c].pc = "open"]
    /\ UNCHANGED <<disk, mem, now, res, assets, arg, ret, ADMIN_API_KEY, client>>

\* cache.js:62: fs.writeFile opens <hash>.png for writing, creating or
\* emptying it.
OpenForWrite(c) ==
    /\ calls[c].pc = "open"
    /\ disk' = Put(disk, getCachePath(HashOf(calls[c].def)), TruncatedFile)
    /\ calls' = [calls EXCEPT ![c].pc = "write"]
    /\ UNCHANGED <<mem, now, res, assets, arg, ret, dirExists, ADMIN_API_KEY, client>>

\* cache.js:62-63: fs.writeFile has written the whole buffer; the hash is
\* returned.
WriteDone(c) ==
    /\ calls[c].pc = "write"
    /\ disk' = Put(disk, getCachePath(HashOf(calls[c].def)), calls[c].body[1])
    /\ calls' = [calls EXCEPT ![c].pc = "sent", ![c].status = 200]
    /\ UNCHANGED <<mem, now, res, assets, arg, ret, dirExists, ADMIN_API_KEY, client>>

\* The process is stopped: the calls in flight are abandoned and the memory
\* cache is lost; the files stay as they are.
Exit ==
    /\ \E c \in CallIds : calls[c].pc \notin {"idle", "sent", "killed"}
    /\ calls' = [c \in CallIds |->
                   IF calls[c].pc \in {"idle", "sent", "killed"} THEN calls[c]
                   ELSE [calls[c] EXCEPT !.pc = "killed"]]
    /\ mem' = IdleMem
    /\ UNCHANGED <<disk, now, res, assets, arg, ret, dirExists, ADMIN_API_KEY, client>>

\* cache.js:39-49: getCachedSpritesheet(bodyTypeName, layers).
Get(def) ==
    LET cached == getCachedSpritesheet(disk, def)
    IN  /\ res' = [op |-> "getCachedSpritesheet", seq |-> Flip(res.seq), req |-> <<def>>,
                   hit |-> cached.hit, hash |-> cached.hash, buffer |-> cached.buffer]
        /\ UNCHANGED <<disk, mem, now, assets, arg, ret, dirExists, ADMIN_API_KEY,
                       client, calls>>

SaveCalledStep == \E c \in CallIds : SaveCalled(c)

MkdirStep == \E c \in CallIds : Mkdir(c)

OpenForWriteStep == \E c \in CallIds : OpenForWrite(c)

WriteDoneStep == \E c \in CallIds : WriteDone(c)

GetStep == \E def \in RaceItems : Get(def)

NextWrite ==
    \/ SaveCalledStep
    \/ MkdirStep
    \/ OpenForWriteStep
    \/ WriteDoneStep
    \/ Exit
    \/ GetStep

SpecWrite == InitWrite /\ [][NextWrite]_vars

\* The sheets some save for the cache key of def writes in full.
CompleteBuffers(def) ==
    {Render(d).buffer[1] : d \in {x \in RaceItems : HashOf(x) = HashOf(def)}}

\* C23: while a save for a cache key is in progress or after it was
\* interrupted, getCachedSpritesheet answers a miss or the complete bytes of
\* a sheet saved for that key, never a partially written file.
C23_GetNeverPartial ==
    (res.op = "getCachedSpritesheet" /\ res.hit)
        => res.buffer[1] \in CompleteBuffers(res.req[1])

(***************************************************************************)
(* Specification SpecClear: clearCache (cache.js:111-133) step by step,    *)
(* for several DELETE /cache/clear requests at once and next to DELETE     *)
(* /cache/:hash.  unlinked counts the files the call itself removed.       *)
(***************************************************************************)
IdleClear ==
    [pc |-> "idle", files |-> {}, listed |-> 0, unlinked |-> 0,
     success |-> FALSE, deletedCount |-> 0, error |-> ""]

\* The directory after an administrator pre-generated dAB and dA.
DiskWithBoth ==
    saveCachedSpritesheet(DiskWithAB, dA, Render(dA).buffer[1], TRUE).disk

InitClear ==
    /\ disk \in {IdleDisk, DiskWithAB, DiskWithBoth}
    /\ dirExists = (disk # IdleDisk)
    /\ mem = IdleMem /\ now = 0 /\ res = NoRes
    /\ ADMIN_API_KEY = AdminKey /\ client = KeyInHeader(AdminKey)
    /\ calls = [c \in CallIds |-> IdleClear]
    /\ assets = DefaultAssets
    /\ arg = NoArg /\ ret = NoRet

\* The value clearCache returns from its try block, or from its catch block.
ClearReturns(call, ok, message) ==
    [call EXCEPT !.pc = "sent", !.success = ok,
                 !.deletedCount = IF ok THEN call.listed ELSE 0,
                 !.error = message]

\* cache.js:111-113: clearCache is called and awaits fs.readdir.
ClearCalled(c) ==
    /\ calls[c].pc = "idle"
    /\ calls' = [calls EXCEPT ![c].pc = "readdir"]
    /\ UNCHANGED <<disk, mem, now, res, assets, arg, ret, dirExists, ADMIN_API_KEY, client>>

\* cache.js:113-116: readdir lists the directory, the .png files are kept;
\* with none the loop is skipped and the count returned.
Readdir(c) ==
    LET listing == [calls[c] EXCEPT !.pc = "unlink", !.files = pngFiles(disk),
                                    !.listed = Cardinality(pngFiles(disk))]
    IN  /\ calls[c].pc = "readdir"
        /\ calls' = [calls EXCEPT ![c] =
                       IF ~dirExists THEN ClearReturns(calls[c], FALSE, "ENOENT")
                       ELSE IF pngFiles(disk) = {} THEN ClearReturns(listing, TRUE, "")
                       ELSE listing]
        /\ UNCHANGED <<disk, mem, now, res, assets, arg, ret, dirExists, ADMIN_API_KEY, client>>

\* cache.js:116-131: fs.unlink of the next listed file.  It fails when the
\* file is gone (ENOENT) or the file system refuses (unlinkOk is FALSE); the
\* catch block then returns.  After the last file the count is returned.
Unlink(c, unlinkOk) ==
    LET call == calls[c]
    IN  /\ call.pc = "unlink"
        /\ \E file \in call.files :
             LET rest == [call EXCEPT !.files = @ \ {file}, !.unlinked = @ + 1]
             IN  IF file \in DOMAIN disk /\ unlinkOk
                 THEN /\ disk' = Remove(disk, file)
                      /\ calls' = [calls EXCEPT ![c] =
                                     IF rest.files = {} THEN ClearReturns(rest, TRUE, "")
                                     ELSE rest]
                 ELSE /\ disk' = disk
                      /\ calls' = [calls EXCEPT ![c] =
                                     ClearReturns(call, FALSE,
                                                  IF file \in DOMAIN disk THEN "EPERM"
                                                  ELSE "ENOENT")]
        /\ UNCHANGED <<mem, now, res, assets, arg, ret, dirExists, ADMIN_API_KEY, client>>

ClearCalledStep == \E c \in CallIds : ClearCalled(c)

ReaddirStep == \E c \in CallIds : Readdir(c)

UnlinkStep == \E c \in CallIds : \E unlinkOk \in BOOLEAN : Unlink(c, unlinkOk)

NextClear ==
    \/ ClearCalledStep
    \/ ReaddirStep
    \/ UnlinkStep
    \/ DeleteOneStoreStep

SpecClear == InitClear /\ [][NextClear]_vars

\* C25: the count clearCache returns is the number of files that call
\* removed, also when an unlink fails part-way or a listed file was removed
\* by a DELETE /cache/:hash in between; and a call that returns failure has
\* removed no file.
C25_ClearCountsRemoved ==
    \A c \in CallIds :
      calls[c].pc = "sent" =>
        /\ calls[c].deletedCount = calls[c].unlinked
        /\ ~calls[c].success => calls[c].unlinked = 0

(***************************************************************************)
(* Specification SpecList: GET /cache/list followed by DELETE /cache/:hash *)
(* for a value of the list.                                                *)
(***************************************************************************)
\* DELETE /api/admin/cache/<x> for an element x of the list last answered.
DeleteListedStep ==
    /\ res.op = "cache/list"
    /\ \E x \in res.files :
         DeleteOne(x) /\ UNCHANGED <<now, assets, arg, ret, dirExists, ADMIN_API_KEY,
                                     client, calls>>

NextList ==
    \/ PreGenerateStoreStep
    \/ ListStep
    \/ DeleteListedStep

SpecList == InitStore /\ [][NextList]_vars

\* The cache keys of the definitions that have a file.
PersistedKeys(dk) == {HashOf(d) : d \in {x \in StoreItems : OnDisk(dk, x)}}

C26_Step ==
    /\ (Handled("cache/list") /\ ~res'.fault) => res'.files = PersistedKeys(disk)
    /\ (res.op = "cache/list" /\ Handled("cache/delete") /\ res'.req[1] \in res.files)
         => /\ res'.status = 200 /\ res'.success
            /\ Cardinality(DOMAIN disk') = Cardinality(DOMAIN disk) - 1

\* C26: every value GET /cache/list returns is the cache key of a file of
\* the store, the one pre-generation reported for it, and DELETE
\* /cache/<value> sent right after the list answers success and removes that
\* file.
C26_ListedKeysUsable == [][C26_Step]_vars

C27_Step ==
    /\ Handled("cache/generate") =>
         /\ mem' = mem
         /\ res'.status = 200 =>
              \A i \in DOMAIN res'.req :
                ( /\ ValidDefinition(res'.req[i])
                  /\ MemKey(res'.req[i]) \in DOMAIN mem
                  /\ ~OnDisk(disk, res'.req[i]) )
                  => (res'.results[i].status = "generated" /\ res'.rendered >= 1)
    /\ ( /\ res.op = "cache/generate" /\ res.status = 200
         /\ Handled("generate")
         /\ \E i \in DOMAIN res.req :
              res.req[i] = res'.req[1] /\ res.results[i].status = "generated" )
         => (res'.status = 200 /\ res'.xCache = "DISK-HIT")

\* C27: POST /cache/generate leaves the memory cache as it was, renders and
\* reports as generated an item that only the memory cache holds, and a
\* POST /api/generate that follows for an item it reported generated is a
\* DISK-HIT.
C27_PreGenerateBypassesMemory == [][C27_Step]_vars

(***************************************************************************)
(* Specification SpecDir: the admin routes of SpecStore on a cache         *)
(* directory that also holds files that are no cache artifacts.            *)
(***************************************************************************)
\* A file a deployment keeps in the directory, and a stray one.
OtherFiles == {[base |-> <<>>, ext |-> ".gitkeep"], [base |-> <<>>, ext |-> "notes.txt"]}

\* What such a file holds: one byte, no sheet.
OtherContent == [width |-> 0, height |-> 0, painted |-> {}]

InitDir ==
    /\ disk = [f \in OtherFiles |-> OtherContent]
    /\ dirExists = TRUE
    /\ mem = IdleMem /\ now = 0 /\ res = NoRes
    /\ ADMIN_API_KEY = AdminKey /\ client = KeyInHeader(AdminKey)
    /\ calls = NoCalls
    /\ assets = DefaultAssets
    /\ arg = NoArg /\ ret = NoRet

SpecDir == InitDir /\ [][NextStore]_vars

\* The files of the directory whose name ends in .png.
Artifacts(dk) == {f \in DOMAIN dk : f.ext = ".png"}

C28_Step ==
    /\ (Handled("cache/list") /\ ~res'.fault)
         => (res'.files = Artifacts(disk) /\ res'.count = Cardinality(Artifacts(disk)))
    /\ (Handled("cache/stats") /\ ~res'.fault)
         => /\ res'.stats.count = Cardinality(Artifacts(disk))
            /\ res'.stats.totalSize = SumOfSizes(disk, Artifacts(disk))
    /\ (Handled("cache/clear") /\ res'.success)
         => /\ res'.deletedCount = Cardinality(Artifacts(disk))
            /\ DOMAIN disk' = DOMAIN disk \ Artifacts(disk)
            /\ \A f \in DOMAIN disk' : disk'[f] = disk[f]

\* C28: list returns and stats counts exactly the files whose name ends in
\* .png, so that stats.count is the length of the list, stats.totalSize is
\* the sum of the sizes of those files, and clear deletes those files and
\* leaves every other file of the directory in place.
C28_OnlyPngFilesCounted == [][C28_Step]_vars

C28_Witness ==
    /\ res.op = "cache/clear" /\ res.success
    /\ res.deletedCount = 2
    /\ DOMAIN disk = OtherFiles

Rows == DOMAIN ANIMATION_OFFSETS

\* C29: FRAME_SIZE is 64, the sheet is 13 frames wide (832) and 54 rows high
\* (3456); the 15 row offsets are multiples of FRAME_SIZE from 0 to below
\* SHEET_HEIGHT, strictly increasing in table order; halfslash, the last,
\* starts at row 50 and leaves 4 rows to the bottom edge; every row a sheet
\* is drawn on lies inside the sheet.
C29_LayoutConsistent ==
    /\ FRAME_SIZE = 64
    /\ SHEET_WIDTH = 13 * FRAME_SIZE /\ SHEET_WIDTH = 832
    /\ SHEET_HEIGHT = 54 * FRAME_SIZE /\ SHEET_HEIGHT = 3456
    /\ Len(ANIMATION_OFFSETS) = 15
    /\ \A i \in Rows :
         /\ ANIMATION_OFFSETS[i].y >= 0
         /\ ANIMATION_OFFSETS[i].y % FRAME_SIZE = 0
         /\ ANIMATION_OFFSETS[i].y < SHEET_HEIGHT
    /\ \A i, j \in Rows :
         i < j => /\ ANIMATION_OFFSETS[i].y < ANIMATION_OFFSETS[j].y
                  /\ ANIMATION_OFFSETS[i].name # ANIMATION_OFFSETS[j].name
    /\ ANIMATION_OFFSETS[15].name = "halfslash"
    /\ ANIMATION_OFFSETS[15].y = 50 * FRAME_SIZE
    /\ (SHEET_HEIGHT - ANIMATION_OFFSETS[15].y) \div FRAME_SIZE = 4
    /\ (ret.fn = "generateSpritesheet" /\ ret.ok) =>
         \A c \in DOMAIN ret.canvas.px :
            /\ c[1] + FRAME_SIZE <= ret.canvas.width
            /\ c[2] + FRAME_SIZE <= ret.canvas.height

\* A sheet with an image drawn on the hurt row.
C29_Witness ==
    /\ ret.fn = "generateSpritesheet" /\ ret.ok
    /\ \E c \in ProbePixels : c[2] = 20 * FRAME_SIZE /\ ret.canvas.px[c] # ""

====
